---- MODULE Spec2Model ----
(***************************************************************************)
(* Association analysis of src/01_assoziation.py: analyze_associations     *)
(* with generate_item_sets, count_item_sets, filter_item_sets and          *)
(* generate_rules, run on the cells that split_cells has sorted.           *)
(*                                                                         *)
(* Item labels are strings in the program; only their equality and their   *)
(* order (list.sort) are used, so a label is modelled by its rank 1..N in  *)
(* string order.  A dict is a sequence of [key, val] records in insertion  *)
(* order with pairwise different keys (Python dicts iterate in insertion   *)
(* order).  A float quotient a / b is kept as the exact rational           *)
(* [num |-> a, den |-> b]; comparisons are made by cross multiplication.   *)
(***************************************************************************)
EXTENDS Integers, Sequences, FiniteSets, TLC

MaxLen == 3
MaxCells == 5

(* the item labels, by rank in string order *)
Items == {1, 2, 3}

Rat(n, d) == [num |-> n, den |-> d]
RatGeq(a, b) == a.num * b.den >= b.num * a.den
RatEq(a, b) == a.num * b.den = b.num * a.den

(* values given to min_support and min_conf (the defaults are 0.5 and 0.75) *)
MinSupports == {Rat(1, 2), Rat(2, 3), Rat(1, 1)}
MinConfs == {Rat(0, 1), Rat(3, 4)}

(* a row as split_cells leaves it: cell.sort() has put it in ascending order *)
IsSorted(row) == \A j \in 1..(Len(row) - 1) : row[j] <= row[j + 1]

SortedRows(n) == {row \in [1..n -> Items] : IsSorted(row)}

Min(a, b) == IF a <= b THEN a ELSE b

(* the lists of at most n labels in all, in non-empty sorted rows of at    *)
(* most MaxLen labels                                                      *)
RECURSIVE CellsUpTo(_)
CellsUpTo(n) ==
    {<<>>} \cup
    UNION {{<<row>> \o rest : row \in SortedRows(k), rest \in CellsUpTo(n - k)} :
              k \in 1..Min(n, MaxLen)}

VARIABLES pc, min_support, min_conf, cells, t, item_sets,
          item_set_counts, total_transactions, frequent_item_sets, rules

vars == <<pc, min_support, min_conf, cells, t, item_sets,
          item_set_counts, total_transactions, frequent_item_sets, rules>>

(* ---------------- itertools.combinations ---------------- *)
RECURSIVE PrependAll(_, _)
PrependAll(e, ss) ==
    IF ss = <<>> THEN <<>> ELSE <<(<<e>> \o Head(ss))>> \o PrependAll(e, Tail(ss))

(* the r-combinations of the positions lo..n, in the order itertools emits them *)
RECURSIVE CombsFrom(_, _, _)
CombsFrom(lo, n, r) ==
    IF r = 0 THEN << <<>> >>
    ELSE IF n - lo + 1 < r THEN <<>>
    ELSE PrependAll(lo, CombsFrom(lo + 1, n, r - 1)) \o CombsFrom(lo + 1, n, r)

combination_positions(n, r) == CombsFrom(1, n, r)

pick(iterable, p) == [q \in 1..Len(p) |-> iterable[p[q]]]

combinations(iterable, r) ==
    LET P == combination_positions(Len(iterable), r)
    IN  [j \in 1..Len(P) |-> pick(iterable, P[j])]

(* ---------------- generate_item_sets ---------------- *)
RECURSIVE ExtendSizes(_, _, _)
ExtendSizes(transaction, i, hi) ==
    IF i > hi THEN <<>>
    ELSE combinations(transaction, i) \o ExtendSizes(transaction, i + 1, hi)

generate_item_sets_short(transaction, max_length) ==
    ExtendSizes(transaction, 1, max_length - 1)

generate_item_sets(transaction, max_length) ==
    ExtendSizes(transaction, 1, max_length)

(* ---------------- dict / defaultdict(int) ---------------- *)
HasKey(d, k) == \E j \in 1..Len(d) : d[j].key = k
Get(d, k) == d[CHOOSE j \in 1..Len(d) : d[j].key = k].val
Keys(d) == {d[j].key : j \in 1..Len(d)}

IncrementFront(d, k) ==
    IF HasKey(d, k)
    THEN [j \in 1..Len(d) |->
            IF d[j].key = k THEN [key |-> k, val |-> d[j].val + 1] ELSE d[j]]
    ELSE <<[key |-> k, val |-> 1]>> \o d

(* item_set_counts[item_set] += 1 *)
Increment(d, k) ==
    IF HasKey(d, k)
    THEN [j \in 1..Len(d) |->
            IF d[j].key = k THEN [key |-> k, val |-> d[j].val + 1] ELSE d[j]]
    ELSE Append(d, [key |-> k, val |-> 1])

RECURSIVE IncrementAll(_, _)
IncrementAll(d, sets) ==
    IF sets = <<>> THEN d
    ELSE IncrementAll(Increment(d, Head(sets)), Tail(sets))

(* ---------------- filter_item_sets ---------------- *)
SupportOkStrict(count, total) ==
    ~RatGeq(min_support, Rat(count, total))

SupportOkBelow(count, total) ==
    RatGeq(min_support, Rat(count, total))

(* count / total_transactions >= min_support *)
SupportOk(count, total) ==
    RatGeq(Rat(count, total), min_support)

filter_item_sets(counts, total) ==
    SelectSeq(counts, LAMBDA e : SupportOk(e.val, total))

(* ---------------- generate_rules ---------------- *)
set(s) == {s[j] : j \in 1..Len(s)}

RECURSIVE prod(_)
prod(s) == IF s = <<>> THEN 1 ELSE Head(s) * prod(Tail(s))

RECURSIVE pow(_, _)
pow(b, e) == IF e = 0 THEN 1 ELSE b * pow(b, e - 1)

(* range(1, len(item_set)) *)
slice_sizes(item_set) == [i \in 1..(Len(item_set) - 1) |-> i]

antecedent_freq_prod_first(freq, antecedents, total) ==
    Rat(Get(freq, antecedents[1]), total)

(* math.prod([frequent_item_sets[x] / total_transactions for x in antecedents]) *)
antecedent_freq_prod(freq, antecedents, total) ==
    Rat(prod([j \in 1..Len(antecedents) |-> Get(freq, antecedents[j])]),
        pow(total, Len(antecedents)))

consequent_whole(item_set, x) == set(item_set)

(* y = set(item_set) - set(x) *)
consequent(item_set, x) == set(item_set) \ set(x)

lift_single(freq, item_set, x, total, antecedentFreqProd) ==
    Rat(Get(freq, item_set) * total, total * Get(freq, x))

(* frequent_item_sets[item_set] / total_transactions / antecedentFreqProd *)
lift_of(freq, item_set, x, total, antecedentFreqProd) ==
    Rat(Get(freq, item_set) * antecedentFreqProd.den,
        total * antecedentFreqProd.num)

(* frequent_item_sets[item_set] / frequent_item_sets[x] *)
confidence_of(freq, item_set, x) == Rat(Get(freq, item_set), Get(freq, x))

(* The rules of one (item_set, i) slice.  The fields S and pos are           *)
(* bookkeeping that the program's rule dicts do not carry: the item set the *)
(* rule was derived from and the positions of item_set that x was taken at. *)
slice_rules(freq, item_set, i, total) ==
    LET P == combination_positions(Len(item_set), i)
        antecedents == combinations(item_set, i)
        antecedentFreqProd == antecedent_freq_prod(freq, antecedents, total)
        all == [j \in 1..Len(antecedents) |->
                  [x    |-> antecedents[j],
                   y    |-> consequent(item_set, antecedents[j]),
                   conf |-> confidence_of(freq, item_set, antecedents[j]),
                   lift |-> lift_of(freq, item_set, antecedents[j], total,
                                    antecedentFreqProd),
                   S    |-> item_set,
                   pos  |-> P[j]]]
    IN  SelectSeq(all, LAMBDA r : RatGeq(r.conf, min_conf))

RECURSIVE item_set_rules(_, _, _, _)
item_set_rules(freq, item_set, sizes, total) ==
    IF sizes = <<>> THEN <<>>
    ELSE slice_rules(freq, item_set, Head(sizes), total)
         \o item_set_rules(freq, item_set, Tail(sizes), total)

RECURSIVE rules_from(_, _, _)
rules_from(freq, rest, total) ==
    IF rest = <<>> THEN <<>>
    ELSE item_set_rules(freq, Head(rest).key, slice_sizes(Head(rest).key), total)
         \o rules_from(freq, Tail(rest), total)

generate_rules(freq, total) == rules_from(freq, freq, total)

(* the antecedents x that generate_rules looks up in frequent_item_sets *)
Lookups(freq) ==
    UNION {UNION {set(combinations(freq[s].key, i)) :
                     i \in 1..(Len(freq[s].key) - 1)} : s \in 1..Len(freq)}

(* ---------------- the program ---------------- *)
(* analyze_associations is entered with at least one transaction, every   *)
(* transaction non-empty and sorted, and with min_support and min_conf set *)
Init ==
    /\ pc = "count_item_sets"
    /\ cells \in CellsUpTo(MaxCells) \ {<<>>}
    /\ min_support \in MinSupports
    /\ min_conf \in MinConfs
    /\ t = 0
    /\ item_sets = <<>>
    /\ item_set_counts = <<>>
    /\ total_transactions = 0
    /\ frequent_item_sets = <<>>
    /\ rules = <<>>

(* one iteration of the loop over the transactions in count_item_sets *)
CountTransaction ==
    /\ pc = "count_item_sets"
    /\ t < Len(cells)
    /\ LET transaction == cells[t + 1]
           generated == generate_item_sets(transaction, Len(transaction))
       IN  /\ item_sets' = generated
           /\ item_set_counts' = IncrementAll(item_set_counts, generated)
    /\ t' = t + 1
    /\ pc' = IF t + 1 = Len(cells) THEN "filter_item_sets" ELSE "count_item_sets"
    /\ UNCHANGED <<min_support, min_conf, cells, total_transactions,
                   frequent_item_sets, rules>>

(* total_transactions = len(cells); frequent_item_sets = filter_item_sets(...) *)
FilterItemSets ==
    /\ pc = "filter_item_sets"
    /\ total_transactions' = Len(cells)
    /\ frequent_item_sets' = filter_item_sets(item_set_counts, Len(cells))
    /\ pc' = "generate_rules"
    /\ UNCHANGED <<min_support, min_conf, cells, t, item_sets,
                   item_set_counts, rules>>

(* generate_rules: a lookup of a missing key raises KeyError, a division by *)
(* a zero count raises ZeroDivisionError, and then no rule list is returned *)
GenerateRules ==
    /\ pc = "generate_rules"
    /\ LET missing == \E x \in Lookups(frequent_item_sets) :
                          ~HasKey(frequent_item_sets, x)
           zero == \E x \in Lookups(frequent_item_sets) :
                          Get(frequent_item_sets, x) = 0
       IN  IF missing
           THEN pc' = "KeyError" /\ rules' = rules
           ELSE IF zero
           THEN pc' = "ZeroDivisionError" /\ rules' = rules
           ELSE /\ pc' = "output"
                /\ rules' = generate_rules(frequent_item_sets, total_transactions)
    /\ UNCHANGED <<min_support, min_conf, cells, t, item_sets,
                   item_set_counts, total_transactions, frequent_item_sets>>

Next == CountTransaction \/ FilterItemSets \/ GenerateRules

Spec == Init /\ [][Next]_vars

(* ======================= properties ======================= *)
Errors == {"KeyError", "ZeroDivisionError"}
AfterCount == pc \in {"filter_item_sets", "generate_rules", "output"} \cup Errors
AfterFilter == pc \in {"generate_rules", "output"} \cup Errors

NoRepeat(row) == \A j, k \in 1..Len(row) : j # k => row[j] # row[k]

(* the non-empty sets of positions of a sequence of length n *)
PosSets(n) == SUBSET (1..n) \ {{}}

MinOf(A) == CHOOSE m \in A : \A a \in A : m <= a

(* A comes before B: smaller, or of the same size and lexicographically   *)
(* smaller when both are listed in ascending order                         *)
Precedes(A, B) ==
    \/ Cardinality(A) < Cardinality(B)
    \/ /\ Cardinality(A) = Cardinality(B)
       /\ A # B
       /\ MinOf((A \ B) \cup (B \ A)) \in A

Rank(A, n) == 1 + Cardinality({B \in PosSets(n) : Precedes(B, A)})

(* the members of A in ascending order *)
RECURSIVE AscSeq(_)
AscSeq(A) == IF A = {} THEN <<>> ELSE <<MinOf(A)>> \o AscSeq(A \ {MinOf(A)})

LabelsAt(row, A) == [q \in 1..Cardinality(A) |-> row[AscSeq(A)[q]]]

Count(item_set) == Get(item_set_counts, item_set)

(* ---- C4 ---- *)
EnumeratedInOrder(row, sets) ==
    /\ Len(sets) = pow(2, Len(row)) - 1
    /\ \A j \in 1..Len(sets) : sets[j] # <<>>
    /\ \A A \in PosSets(Len(row)) : sets[Rank(A, Len(row))] = LabelsAt(row, A)

PairwiseDistinct(sets) == \A j, k \in 1..Len(sets) : j # k => sets[j] # sets[k]

(* C4 as stated: generate_item_sets(transaction, n) returns 2^n - 1       *)
(* non-empty item sets, in ascending size and then positional             *)
(* lexicographic order, no two of them equal.                             *)
C4_Original ==
    t > 0 => /\ EnumeratedInOrder(cells[t], item_sets)
             /\ PairwiseDistinct(item_sets)

(* C4 amended: generate_item_sets(transaction, n) returns 2^n - 1         *)
(* non-empty item sets in ascending size and then positional              *)
(* lexicographic order; no two of them are equal exactly when the         *)
(* transaction has no repeated label.                                     *)
C4_Enumeration ==
    t > 0 => /\ EnumeratedInOrder(cells[t], item_sets)
             /\ PairwiseDistinct(item_sets) <=> NoRepeat(cells[t])

C4_Witness ==
    /\ t > 0
    /\ Len(cells[t]) = 3
    /\ ~NoRepeat(cells[t])
    /\ Len(item_sets) = 7

(* ---- C3 ---- *)
(* C3: once count_item_sets has processed all transactions, every item    *)
(* set of the count mapping has 0 < count <= total_transactions.          *)
C3_CountWithinTotal ==
    AfterCount =>
        \A j \in 1..Len(item_set_counts) :
            /\ item_set_counts[j].val > 0
            /\ item_set_counts[j].val <= Len(cells)

(* ---- C1 ---- *)
(* C1: analyze_associations ends without an error: every antecedent that  *)
(* generate_rules looks up is a key of the filtered mapping with a count  *)
(* above 0.                                                                *)
C1_NoError ==
    /\ pc \notin Errors
    /\ pc = "generate_rules" =>
          \A x \in Lookups(frequent_item_sets) :
              HasKey(frequent_item_sets, x) /\ Get(frequent_item_sets, x) > 0

(* ---- C2 ---- *)
(* C2: every emitted rule has 0 < count(S) <= count(x), that is a         *)
(* confidence in (0, 1].                                                   *)
C2_ConfidenceInUnitInterval ==
    \A p \in 1..Len(rules) :
        /\ rules[p].conf = Rat(Count(rules[p].S), Count(rules[p].x))
        /\ 0 < Count(rules[p].S)
        /\ Count(rules[p].S) <= Count(rules[p].x)

(* ---- C5 ---- *)
(* C5: for every emitted rule (x, y), x and y share no item and the items  *)
(* of x and y together are the items of the retained frequent item set S   *)
(* the rule was derived from.                                              *)
C5_DisjointCover ==
    \A p \in 1..Len(rules) :
        /\ HasKey(frequent_item_sets, rules[p].S)
        /\ rules[p].x = [q \in 1..Len(rules[p].pos) |-> rules[p].S[rules[p].pos[q]]]
        /\ {rules[p].x[q] : q \in 1..Len(rules[p].x)} \cap rules[p].y = {}
        /\ {rules[p].x[q] : q \in 1..Len(rules[p].x)} \cup rules[p].y
              = {rules[p].S[q] : q \in 1..Len(rules[p].S)}

C5_Witness ==
    /\ pc = "output"
    /\ \E p \in 1..Len(rules) :
          /\ Len(rules[p].S) = 3
          /\ Len(rules[p].x) = 2
          /\ Cardinality(rules[p].y) = 1

(* ---- C6 ---- *)
MeetsSupport(count, total, m) == count * m.den >= m.num * total

Occurrences(item_set) ==
    UNION {{tt * pow(2, MaxLen) + Rank(A, Len(cells[tt])) :
               A \in {B \in PosSets(Len(cells[tt])) :
                         /\ Cardinality(B) = Len(item_set)
                         /\ LabelsAt(cells[tt], B) = item_set}} :
              tt \in 1..Len(cells)}

FirstKey(item_set) == MinOf(Occurrences(item_set))

LexLess(a, b) ==
    \E q \in 1..Len(a) : a[q] < b[q] /\ \A r \in 1..(q - 1) : a[r] = b[r]

(* rule a of first-insertion key ka comes before rule b of key kb *)
RuleBefore(a, ka, b, kb) ==
    \/ ka < kb
    \/ /\ a.S = b.S
       /\ \/ Len(a.pos) < Len(b.pos)
          \/ Len(a.pos) = Len(b.pos) /\ LexLess(a.pos, b.pos)

(* the candidates of item_set that pass min_conf *)
Passing(item_set) ==
    {A \in PosSets(Len(item_set)) :
        /\ Cardinality(A) < Len(item_set)
        /\ Count(item_set) * min_conf.den
              >= min_conf.num * Count(LabelsAt(item_set, A))}

(* C7: the rules come grouped by item set in first-insertion order of the *)
(* count mapping, within an item set by ascending antecedent size, within *)
(* a size in combination order; the min_conf test removes rules and       *)
(* reorders none.                                                          *)
C7_RuleOrder ==
    pc = "output" =>
        /\ LET fk == [p \in 1..Len(rules) |-> FirstKey(rules[p].S)]
           IN  \A p, q \in 1..Len(rules) :
                  p < q => RuleBefore(rules[p], fk[p], rules[q], fk[q])
        /\ \A p \in 1..Len(rules) :
              /\ rules[p].x = LabelsAt(rules[p].S, {rules[p].pos[r] :
                                                     r \in 1..Len(rules[p].pos)})
              /\ \A r \in 1..(Len(rules[p].pos) - 1) :
                    rules[p].pos[r] < rules[p].pos[r + 1]
        /\ \A j \in 1..Len(frequent_item_sets) :
              \A A \in Passing(frequent_item_sets[j].key) :
                 \E p \in 1..Len(rules) :
                    /\ rules[p].S = frequent_item_sets[j].key
                    /\ rules[p].pos = AscSeq(A)

C7_Witness ==
    /\ pc = "output"
    /\ min_conf.num > 0
    /\ \E p, q \in 1..Len(rules) : rules[p].S # rules[q].S
    /\ \E p, q \in 1..Len(rules) :
          rules[p].S = rules[q].S /\ Len(rules[p].x) < Len(rules[q].x)
    /\ \E j \in 1..Len(frequent_item_sets) :
          \E A \in PosSets(Len(frequent_item_sets[j].key)) :
             /\ Cardinality(A) < Len(frequent_item_sets[j].key)
             /\ A \notin Passing(frequent_item_sets[j].key)

(* ---- C8 ---- *)
RECURSIVE ProdOver(_, _)
ProdOver(As, item_set) ==
    IF As = {} THEN 1
    ELSE LET A == CHOOSE B \in As : TRUE
         IN  Count(LabelsAt(item_set, A)) * ProdOver(As \ {A}, item_set)

SizeSets(item_set, i) == {A \in PosSets(Len(item_set)) : Cardinality(A) = i}

(* D_i = the product of count(c) / total over all size-i combinations c   *)
SliceDenominator(item_set, i) ==
    Rat(ProdOver(SizeSets(item_set, i), item_set),
        pow(Len(cells), Cardinality(SizeSets(item_set, i))))

(* C8: the lift of a rule from item set S with antecedent size i is        *)
(* (count(S) / total) / D_i, D_i the product of count(c) / total over all *)
(* size-i combinations c of S; rules of one (S, i) slice have equal lift.  *)
C8_LiftFormula ==
    /\ \A p \in 1..Len(rules) :
          LET D == SliceDenominator(rules[p].S, Len(rules[p].x))
          IN  rules[p].lift.num * (Len(cells) * D.num)
                 = rules[p].lift.den * (Count(rules[p].S) * D.den)
    /\ \A p, q \in 1..Len(rules) :
          (rules[p].S = rules[q].S /\ Len(rules[p].x) = Len(rules[q].x))
             => RatEq(rules[p].lift, rules[q].lift)

C8_Witness ==
    /\ pc = "output"
    /\ \E p \in 1..Len(rules) :
          /\ Len(rules[p].S) = 3
          /\ Len(rules[p].x) = 1
          /\ \E A \in SizeSets(rules[p].S, 1) :
                Count(LabelsAt(rules[p].S, A)) # Count(rules[p].x)
          /\ \E A \in SizeSets(rules[p].S, 1) :
                Count(LabelsAt(rules[p].S, A)) # Len(cells)

(* ---- C9 ---- *)
(* y as the sorted item set it is counted under *)
AsItemSet(y) == AscSeq(y)

(* lift = support(S) / (support(x) * support(y)), support(z) = count(z) / total *)
TextbookLift(r) ==
    Rat(Count(r.S) * Len(cells), Count(r.x) * Count(AsItemSet(r.y)))

TextbookDefined(r) == HasKey(item_set_counts, AsItemSet(r.y))

(* C9 as stated: whenever the slice has more than one candidate, which is *)
(* the case for every rule, the lift differs from the textbook lift.      *)
C9_Original ==
    \A p \in 1..Len(rules) :
        (TextbookDefined(rules[p]) /\ Cardinality(SizeSets(rules[p].S, Len(rules[p].x))) > 1)
            => ~RatEq(rules[p].lift, TextbookLift(rules[p]))

(* C9 amended: for a rule from an item set S without a repeated label the *)
(* lift differs from the textbook lift exactly when D_i differs from      *)
(* support(x) * support(y); for an S of two labels the two are equal, so  *)
(* a difference needs an S of at least three labels.                      *)
C9_LiftVersusTextbook ==
    \A p \in 1..Len(rules) :
        NoRepeat(rules[p].S) =>
            LET r == rules[p]
                D == SliceDenominator(r.S, Len(r.x))
                XY == Rat(Count(r.x) * Count(AsItemSet(r.y)), Len(cells) * Len(cells))
            IN  /\ TextbookDefined(r)
                /\ RatEq(r.lift, TextbookLift(r)) <=> RatEq(D, XY)
                /\ Len(r.S) = 2 => RatEq(r.lift, TextbookLift(r))

C9_Witness ==
    /\ pc = "output"
    /\ \E p \in 1..Len(rules) :
          /\ NoRepeat(rules[p].S) /\ Len(rules[p].S) = 3
          /\ ~RatEq(rules[p].lift, TextbookLift(rules[p]))
    /\ \E p \in 1..Len(rules) :
          /\ NoRepeat(rules[p].S) /\ Len(rules[p].S) = 2
          /\ RatEq(rules[p].lift, TextbookLift(rules[p]))

(* ---- C10 ---- *)
(* C10: when no transaction has a repeated label, every non-empty          *)
(* sub-combination x of a retained item set S is retained too, with       *)
(* count(x) >= count(S), and so no lookup of generate_rules fails.        *)
C10_DownwardClosure ==
    (AfterFilter /\ \A tt \in 1..Len(cells) : NoRepeat(cells[tt])) =>
        /\ pc # "KeyError"
        /\ \A j \in 1..Len(frequent_item_sets) :
              \A A \in PosSets(Len(frequent_item_sets[j].key)) :
                 LET x == LabelsAt(frequent_item_sets[j].key, A)
                 IN  /\ HasKey(frequent_item_sets, x)
                     /\ Get(frequent_item_sets, x) >= frequent_item_sets[j].val

C10_Witness ==
    /\ pc = "output"
    /\ \A tt \in 1..Len(cells) : NoRepeat(cells[tt])
    /\ \E j \in 1..Len(frequent_item_sets) :
          /\ Len(frequent_item_sets[j].key) = 2
          /\ \A x \in Lookups(frequent_item_sets) : HasKey(frequent_item_sets, x)
    /\ Len(frequent_item_sets) < Len(item_set_counts)

====
